---- MODULE Spec2Model ----
(***************************************************************************)
(* NoseParticleGeneration.py: the emission loop that writes seed particles *)
(* for the mouth and the two nostrils to ParticleInitial.dat.              *)
(*                                                                         *)
(* Numbers.  The program computes in float64; the model computes in        *)
(* integers of fixed units so that every comparison of the code is exact:  *)
(*   - times are integer milliseconds, as in the code;                     *)
(*   - mouth coordinates are in units of 1e-4 m (xPln 0.0015 is 15);       *)
(*   - nostril local coordinates are in micrometres (radius 0.001875 is    *)
(*     1875); the rotation entries are in thousandths (0.948 is 948) and   *)
(*     the translations in nanometres, so RotTrans yields nanometres.      *)
(* random.uniform(a, b) is a + (b - a) * f for a fraction f; the fractions *)
(* the model draws are listed in FDraws and UDraws as <<num, den>>.        *)
(*                                                                         *)
(* The output file.  The file is opened with 'w' and only ever appended    *)
(* to.  The model keeps the number of header lines, the number of record   *)
(* lines, the record lines that carry the newest time step (tail: the      *)
(* file's last lines, without their coordinates) and the coordinates of    *)
(* the last line (coord).                                                  *)
(***************************************************************************)
EXTENDS Integers, Sequences, FiniteSets

VARIABLES
    cfg,        \* the module-level configuration constants of the run
    pc,         \* position of the program
    nextTi,     \* next value of range(0, stop, 5)
    ti,         \* loop variable of the time-step loop
    tm,         \* ti % 5000
    i,          \* index of the mouth loop
    pId,        \* pId of NoseParticleGeneration
    gi,         \* index i of the loop of GenNostril
    gpId,       \* pId of GenNostril (parameter, then local)
    x, y,       \* x and y of GenNostril
    stream,     \* file_handle: "unopened", "open" or "closed"
    opens,      \* number of times the file was opened
    header,     \* header lines in the file
    written,    \* particle record lines in the file
    tail,       \* the record lines of the newest time step, oldest first
    coord,      \* coordinates on the last record line
    printed     \* <<the count printed by the final summary>>, or NoPrint

vars == <<cfg, pc, nextTi, ti, tm, i, pId, gi, gpId, x, y,
          stream, opens, header, written, tail, coord, printed>>

(***************************************************************************)
(* Bounds of the model.                                                    *)
(***************************************************************************)
\* Run length (ms) of the runs of Spec: one full cycle and the start of
\* the next exhale window.
MaxRun == 5100

\* Run length (ms) of the runs of SpecFair: one exhale window and the
\* start of the pause after it.
FairRun == 2600

\* Fractions f in [0, 1] drawn for random.uniform(0.0, ydel / zdel).
FDraws == { <<0, 1>>, <<1, 2>>, <<1, 1>> }

\* Values u in [-1, 1] drawn for random.uniform(-1.0, 1.0).
UDraws == { <<-3, 5>>, <<0, 1>>, <<1, 1>> }

(***************************************************************************)
(* Configuration constants of the program.                                 *)
(***************************************************************************)
StepMs == 5
CyclePeriod == 5000
ExhaleLength == 2500
\* range(0,4) for the mouth loop.
mouthCountDropsOne == 5 - 1
mouthCount == 5
\* range(0,3) for the loop of GenNostril.
nostrilCountOneMore == 2 + 1
nostrilCount == 2

NoPrint == <<>>
NoTime == <<>>
NoCoord == <<>>

DefaultGeometry ==
    [ xPln |-> 15,
      ymin |-> 33510, ymax |-> 33910,
      zmin |-> 16780, zmax |-> 16881,
      radius |-> 1875 ]

Config(geometry, which, runLength) ==
    [ whichOutput |-> which, runLength |-> runLength,
      xPln |-> geometry.xPln,
      ymin |-> geometry.ymin, ymax |-> geometry.ymax,
      zmin |-> geometry.zmin, zmax |-> geometry.zmax,
      radius |-> geometry.radius ]

whichOutput == cfg.whichOutput
xPln == cfg.xPln
ymin == cfg.ymin
ymax == cfg.ymax
ydel == ymax - ymin
zmin == cfg.zmin
zmax == cfg.zmax
zdel == zmax - zmin
radius == cfg.radius

leftRotTrans ==
    << << 948,    0, -319,    5730000 >>,
       <<   0, 1000,    0,   -8750000 >>,
       << 319,    0,  948, 1711770000 >> >>

rightRotTrans ==
    << << 948,    0, -319,    5730000 >>,
       <<   0, 1000,    0,   -8750000 >>,
       << 319,    0,  948, 1711770000 >> >>

(***************************************************************************)
(* Pure functions.                                                         *)
(***************************************************************************)
\* random.uniform(a, b) for the fraction f.
Uniform(a, b, f) == a + ((b - a) * f[1]) \div f[2]

\* radius * random.uniform(-1.0, 1.0) for the drawn value u.
Scaled(r, u) == (r * u[1]) \div u[2]

RotTrans(rotTrans, c) ==
    << rotTrans[1][1] * c[1] + rotTrans[1][2] * c[2]
         + rotTrans[1][3] * c[3] + rotTrans[1][4],
       rotTrans[2][1] * c[1] + rotTrans[2][2] * c[2]
         + rotTrans[2][3] * c[3] + rotTrans[2][4],
       rotTrans[3][1] * c[1] + rotTrans[3][2] * c[2]
         + rotTrans[3][3] * c[3] + rotTrans[3][4] >>

\* The same field computed from tm in place of ti.
FormatTimeOfPhase(t) == << (t % CyclePeriod) \div 1000, (t % CyclePeriod) % 1000 >>
\* '{:7.3f}'.format(ti / 1000.0): seconds and the three decimals.
FormatTime(t) == << t \div 1000, t % 1000 >>

\* The line Output writes and the value it returns.
Output(t, id, c) ==
    [ line |-> [ fmt |-> "full", pos |-> c,
                 start_time |-> FormatTime(t), id |-> id ],
      ret |-> id + 1 ]

\* OutputStar writing pId in place of pId+1.
OutputStarSameId(t, id, c) ==
    [ line |-> [ fmt |-> "star", id |-> id, pos |-> c ],
      ret |-> id + 1 ]

\* The line OutputStar writes and the value it returns.
OutputStar(t, id, c) ==
    [ line |-> [ fmt |-> "star", id |-> id + 1, pos |-> c ],
      ret |-> id + 1 ]

WhichOutput(t, id, c) ==
    IF whichOutput = "Output" THEN Output(t, id, c) ELSE OutputStar(t, id, c)

\* The test with tm <= 2500.
InWindowInclusive(m) == m >= 0 /\ m <= ExhaleLength
\* The test of the exhale phase.
InWindow(m) == m >= 0 /\ m < ExhaleLength

\* A stop that leaves the run length itself out.
RangeStopExclusive(runLength) == runLength
\* The stop of range(0, stop, 5) for a run length: 200005 for 200000.
RangeStop(runLength) == runLength + StepMs

\* The test with <=, which lets points on the circle through.
AcceptsOnCircle(cx, cy, r) == cx * cx + cy * cy <= r * r
\* The acceptance test of the rejection loop.
Accepts(cx, cy, r) == cx * cx + cy * cy < r * r

\* The candidates of one pass of the rejection loop.
Candidates == { << Scaled(radius, ux), Scaled(radius, uy) >> : ux \in UDraws, uy \in UDraws }

(***************************************************************************)
(* The file after one more record line.                                    *)
(***************************************************************************)
TailEntry(region, line) ==
    [ step |-> ti, region |-> region, fmt |-> line.fmt, id |-> line.id,
      time |-> IF line.fmt = "full" THEN line.start_time ELSE NoTime ]

Write(region, line) ==
    /\ written' = written + 1
    /\ tail' = IF tail # <<>> /\ tail[1].step = ti
               THEN Append(tail, TailEntry(region, line))
               ELSE << TailEntry(region, line) >>
    /\ coord' = line.pos

(***************************************************************************)
(* Initial states.                                                         *)
(***************************************************************************)
InitWith(configs) ==
    /\ cfg \in configs
    /\ pc = "start"
    /\ nextTi = 0
    /\ ti = 0
    /\ tm = 0
    /\ i = 0
    /\ pId = 0
    /\ gi = 0
    /\ gpId = 0
    /\ x = 0
    /\ y = 0
    /\ stream = "unopened"
    /\ opens = 0
    /\ header = 0
    /\ written = 0
    /\ tail = <<>>
    /\ coord = NoCoord
    /\ printed = NoPrint

Init == InitWith({ Config(DefaultGeometry, w, MaxRun) : w \in {"Output", "OutputStar"} })

(***************************************************************************)
(* NoseParticleGeneration.                                                 *)
(***************************************************************************)
\* with open('ParticleInitial.dat', 'w') as file_handle: pId = 0
OpenFile ==
    /\ pc = "start"
    /\ stream' = "open"
    /\ opens' = opens + 1
    /\ pId' = 0
    /\ pc' = "header"
    /\ UNCHANGED <<cfg, nextTi, ti, tm, i, gi, gpId, x, y, header, written, tail, coord, printed>>

\* if whichOutput == Output: the two header lines
WriteHeader ==
    /\ pc = "header"
    /\ header' = IF whichOutput = "Output" THEN header + 2 ELSE header
    /\ pc' = "for"
    /\ UNCHANGED <<cfg, nextTi, ti, tm, i, pId, gi, gpId, x, y, stream, opens, written, tail, coord, printed>>

\* for ti in range(0, stop, 5): tm = ti % 5000, inside the exhale phase
ForActive ==
    /\ pc = "for"
    /\ nextTi < RangeStop(cfg.runLength)
    /\ InWindow(nextTi % CyclePeriod)
    /\ ti' = nextTi
    /\ nextTi' = nextTi + StepMs
    /\ tm' = nextTi % CyclePeriod
    /\ i' = 0
    /\ pc' = "mouth"
    /\ UNCHANGED <<cfg, pId, gi, gpId, x, y, stream, opens, header, written, tail, coord, printed>>

\* for ti in range(0, stop, 5): tm = ti % 5000, outside the exhale phase
ForInactive ==
    /\ pc = "for"
    /\ nextTi < RangeStop(cfg.runLength)
    /\ ~InWindow(nextTi % CyclePeriod)
    /\ ti' = nextTi
    /\ nextTi' = nextTi + StepMs
    /\ tm' = nextTi % CyclePeriod
    /\ pc' = "for"
    /\ UNCHANGED <<cfg, i, pId, gi, gpId, x, y, stream, opens, header, written, tail, coord, printed>>

\* the range is exhausted: the with block ends and closes the file
ForExit ==
    /\ pc = "for"
    /\ nextTi >= RangeStop(cfg.runLength)
    /\ stream' = "closed"
    /\ pc' = "print"
    /\ UNCHANGED <<cfg, nextTi, ti, tm, i, pId, gi, gpId, x, y, opens, header, written, tail, coord, printed>>

\* one pass of for i in range(0,5): draw y and z, write the record
MouthParticle ==
    /\ pc = "mouth"
    /\ i < mouthCount
    /\ \E fy \in FDraws, fz \in FDraws :
         LET rydel == Uniform(0, ydel, fy)
             rzdel == Uniform(0, zdel, fz)
             res == WhichOutput(ti, pId, << xPln, ymin + rydel, zmin + rzdel >>)
         IN  /\ Write("mouth", res.line)
             /\ pId' = res.ret
    /\ i' = i + 1
    /\ UNCHANGED <<cfg, pc, nextTi, ti, tm, gi, gpId, x, y, stream, opens, header, printed>>

\* the mouth loop is over: GenNostril(ti, radius, pId, leftRotTrans, ...) begins
CallLeft ==
    /\ pc = "mouth"
    /\ i >= mouthCount
    /\ pc' = "left"
    /\ gpId' = pId
    /\ gi' = 0
    /\ x' = 0
    /\ y' = 0
    /\ UNCHANGED <<cfg, nextTi, ti, tm, i, pId, stream, opens, header, written, tail, coord, printed>>

(***************************************************************************)
(* GenNostril.                                                             *)
(***************************************************************************)
InGenNostril == pc \in {"left", "right"}

rotTrans == IF pc = "left" THEN leftRotTrans ELSE rightRotTrans

\* one pass of while True whose candidate fails the test: draw again
GenNostrilReject ==
    /\ InGenNostril
    /\ gi < nostrilCount
    /\ \E c \in Candidates :
         /\ ~Accepts(c[1], c[2], radius)
         /\ x' = c[1]
         /\ y' = c[2]
    /\ UNCHANGED <<cfg, pc, nextTi, ti, tm, i, pId, gi, gpId, stream, opens, header, written, tail, coord, printed>>

\* one pass of while True whose candidate passes: break, transform, write
GenNostrilAccept ==
    /\ InGenNostril
    /\ gi < nostrilCount
    /\ \E c \in Candidates :
         /\ Accepts(c[1], c[2], radius)
         /\ x' = c[1]
         /\ y' = c[2]
         /\ LET res == WhichOutput(ti, gpId, RotTrans(rotTrans, << c[1], c[2], 0 >>))
            IN  /\ Write(pc, res.line)
                /\ gpId' = res.ret
    /\ gi' = gi + 1
    /\ UNCHANGED <<cfg, pc, nextTi, ti, tm, i, pId, stream, opens, header, printed>>

\* The left call with its result not assigned to pId.
ReturnLeftDropsResult ==
    /\ pc = "left"
    /\ gi >= nostrilCount
    /\ pId' = pId
    /\ pc' = "right"
    /\ gpId' = pId'
    /\ gi' = 0
    /\ x' = 0
    /\ y' = 0
    /\ UNCHANGED <<cfg, nextTi, ti, tm, i, stream, opens, header, written, tail, coord, printed>>
\* the left call returns into pId; the right call begins
ReturnLeft ==
    /\ pc = "left"
    /\ gi >= nostrilCount
    /\ pId' = gpId
    /\ pc' = "right"
    /\ gpId' = pId'
    /\ gi' = 0
    /\ x' = 0
    /\ y' = 0
    /\ UNCHANGED <<cfg, nextTi, ti, tm, i, stream, opens, header, written, tail, coord, printed>>

\* the right call returns into pId; the time step is over
ReturnRight ==
    /\ pc = "right"
    /\ gi >= nostrilCount
    /\ pId' = gpId
    /\ pc' = "for"
    /\ gi' = 0
    /\ x' = 0
    /\ y' = 0
    /\ UNCHANGED <<cfg, nextTi, ti, tm, i, gpId, stream, opens, header, written, tail, coord, printed>>

\* print(f"... with {pId} particles.")
PrintSummary ==
    /\ pc = "print"
    /\ printed' = << pId >>
    /\ pc' = "done"
    /\ UNCHANGED <<cfg, nextTi, ti, tm, i, pId, gi, gpId, x, y, stream, opens, header, written, tail, coord>>

Next ==
    \/ OpenFile
    \/ WriteHeader
    \/ ForActive
    \/ ForInactive
    \/ ForExit
    \/ MouthParticle
    \/ CallLeft
    \/ GenNostrilReject
    \/ GenNostrilAccept
    \/ ReturnLeft
    \/ ReturnRight
    \/ PrintSummary

Spec == Init /\ [][Next]_vars

(***************************************************************************)
(* The scenario run: two breathing cycles (10000 ms), full format.         *)
(***************************************************************************)
ScenarioRunLength == 2 * CyclePeriod

InitScenario == InitWith({ Config(DefaultGeometry, "Output", ScenarioRunLength) })

SpecScenario == InitScenario /\ [][Next]_vars

(***************************************************************************)
(* Runs in which a write to the file raises.  file_handle.write raises     *)
(* OSError; the exception leaves the with block, whose exit closes the     *)
(* file, and ends the program before the summary is printed.               *)
(***************************************************************************)
WritePending ==
    \/ pc = "header" /\ whichOutput = "Output"
    \/ pc = "mouth" /\ i < mouthCount
    \/ InGenNostril /\ gi < nostrilCount

\* The same exception without the with block: the file stays open.
WriteFaultLeavesOpen ==
    /\ WritePending
    /\ header' \in IF pc = "header" THEN {header, header + 1} ELSE {header}
    /\ pc' = "failed"
    /\ UNCHANGED <<cfg, nextTi, ti, tm, i, pId, gi, gpId, x, y, stream, opens, written, tail, coord, printed>>
WriteFault ==
    /\ WritePending
    /\ header' \in IF pc = "header" THEN {header, header + 1} ELSE {header}
    /\ stream' = "closed"
    /\ pc' = "failed"
    /\ UNCHANGED <<cfg, nextTi, ti, tm, i, pId, gi, gpId, x, y, opens, written, tail, coord, printed>>

NextFault == Next \/ WriteFault

SpecFault == Init /\ [][NextFault]_vars

(***************************************************************************)
(* Runs of the program with its geometry constants set to malformed        *)
(* values: a zero radius, a negative radius, a mouth rectangle whose ymax  *)
(* is below its ymin.                                                      *)
(***************************************************************************)
MalformedGeometries ==
    { [DefaultGeometry EXCEPT !.radius = 0],
      [DefaultGeometry EXCEPT !.radius = -1875],
      [DefaultGeometry EXCEPT !.ymin = 33910, !.ymax = 33510] }

InitGeometry == InitWith({ Config(g, "Output", MaxRun) : g \in MalformedGeometries })

SpecGeometry == InitGeometry /\ [][Next]_vars

(***************************************************************************)
(* Runs in which the program keeps running and the rejection loop          *)
(* eventually draws a candidate inside the disk.                           *)
(***************************************************************************)
InitFair == InitWith({ Config(DefaultGeometry, "Output", FairRun) })

SpecFair == InitFair /\ [][Next]_vars /\ WF_vars(Next) /\ WF_vars(GenNostrilAccept)

(***************************************************************************)
(* Properties.                                                             *)
(***************************************************************************)
StepOver == pc \in {"for", "print", "done"} /\ nextTi > 0

LastLine == tail[Len(tail)]

Before == written - Len(tail)

\* C1: records are written for a visited time step ti if and only if
\* ti mod 5000 < 2500: every record line belongs to a step inside the exhale
\* window, a finished step has record lines exactly when it is inside the
\* window, and a step outside the window writes nothing and leaves the
\* identifier counters unchanged.
C1_EmitIffExhale ==
    /\ [](\A k \in DOMAIN tail : tail[k].step % 5000 < 2500)
    /\ [](StepOver => ((ti % 5000 < 2500) <=> (tail # <<>> /\ LastLine.step = ti)))
    /\ [][ ~(ti' % 5000 < 2500)
           => (written' = written /\ pId' = pId /\ gpId' = gpId) ]_vars

C1_Witness ==
    /\ pc = "for"
    /\ ti = 2500
    /\ written = 4500
    /\ pId = 4500
    /\ LastLine.step = 2495

ExpectedRegions ==
    << "mouth", "mouth", "mouth", "mouth", "mouth", "left", "left", "right", "right" >>

\* C2: the record lines of one time step are at most 9, the k-th of them
\* comes from the k-th region of mouth x5, left x2, right x2, and a finished
\* active step has exactly 9; the lines before them are whole batches of 9.
C2_BatchOfNine ==
    /\ Len(tail) <= 9
    /\ \A k \in DOMAIN tail :
         /\ tail[k].region = ExpectedRegions[k]
         /\ tail[k].step = tail[1].step
    /\ (StepOver /\ tail # <<>>) => Len(tail) = 9
    /\ Before % 9 = 0
    /\ (tail # <<>> /\ LastLine.step # ti) => Len(tail) = 9

C2_Witness ==
    /\ pc = "for"
    /\ ti = 5
    /\ written = 18
    /\ Len(tail) = 9
    /\ tail[6].region = "left"
    /\ tail[9].region = "right"

\* C3: the k-th record line of the file (k = 0, 1, ...) carries identifier
\* k in the full format and k + 1 in the compact format, in the format the
\* run selected.
C3_GapFreeIds ==
    \A k \in DOMAIN tail :
        /\ tail[k].fmt = (IF whichOutput = "Output" THEN "full" ELSE "star")
        /\ tail[k].id = (Before + k - 1) + (IF tail[k].fmt = "full" THEN 0 ELSE 1)

C3_Witness ==
    /\ whichOutput = "OutputStar"
    /\ written = 17
    /\ Len(tail) = 8
    /\ tail[8].region = "right"
    /\ tail[8].id = 17

OriginalSteps(t) ==
    t % 5 = 0 /\ ((0 <= t /\ t < 2500) \/ (5000 <= t /\ t < 7500))

AmendedSteps(t) == OriginalSteps(t) \/ t = 10000

\* C4 as stated: in the scenario run records are written exactly at the
\* steps of {0..2495} and {5000..7495}, and the summary reports 9000.
C4_Original ==
    /\ \A k \in DOMAIN tail : OriginalSteps(tail[k].step)
    /\ (StepOver /\ OriginalSteps(ti)) => (tail # <<>> /\ LastLine.step = ti)
    /\ pc = "done" => (printed = << 9000 >> /\ written = 9000)

\* C4 amended: in the scenario run the loop also visits ti = 10000, the
\* first step of a third exhale window: records are written exactly at the
\* steps of {0..2495}, {5000..7495} and {10000} (1001 active steps) and the
\* summary reports 1001 * 9 = 9009.
C4_Amended ==
    /\ \A k \in DOMAIN tail : AmendedSteps(tail[k].step)
    /\ (StepOver /\ AmendedSteps(ti)) => (tail # <<>> /\ LastLine.step = ti)
    /\ pc = "done" => (printed = << 9009 >> /\ written = 9009)

C4_Witness ==
    /\ pc = "done"
    /\ printed = << 9009 >>
    /\ ti = 10000
    /\ LastLine.step = 10000

\* The local point whose image under the transform t is the position c.
LocalX(t, c) == (c[1] - t[1][4]) \div t[1][1]
LocalY(t, c) == (c[2] - t[2][4]) \div t[2][2]

IsImage(t, c) == c = RotTrans(t, << LocalX(t, c), LocalY(t, c), 0 >>)

\* C5: the position on every record line lies in its source region: a
\* mouth line has x = xPln, y in [ymin, ymax], z in [zmin, zmax]; a nostril
\* line is the image under the nostril's transform of a local point
\* (x, y, 0) with x*x + y*y < radius*radius.
C5_PositionInRegion ==
    written > 0 =>
        IF LastLine.region = "mouth"
        THEN /\ coord[1] = xPln
             /\ ymin <= coord[2] /\ coord[2] <= ymax
             /\ zmin <= coord[3] /\ coord[3] <= zmax
        ELSE LET t == IF LastLine.region = "left" THEN leftRotTrans ELSE rightRotTrans
                 lx == LocalX(t, coord)
                 ly == LocalY(t, coord)
             IN  /\ IsImage(t, coord)
                 /\ lx * lx + ly * ly < radius * radius

C5_Witness ==
    /\ written > 0
    /\ LastLine.region = "right"
    /\ LocalX(rightRotTrans, coord) = -1125
    /\ LocalY(rightRotTrans, coord) = -1125
    /\ coord = << 4663500, -9875000, 1711411125 >>

\* The identifier counter: pId of the function that is running.
Counter == IF InGenNostril THEN gpId ELSE pId

\* C6: every step that writes appends exactly one record line and advances
\* the identifier counter by one, so the counter (pId of
\* NoseParticleGeneration, and during a call of GenNostril the pId that
\* call threads) equals the number of record lines in the file, and the
\* printed count equals the number of record lines.
C6_CounterIsLineCount ==
    /\ [](Counter = written)
    /\ [](~InGenNostril => pId = written)
    /\ [](printed # NoPrint => printed = << written >>)
    /\ [][ (written' # written \/ Counter' # Counter)
           => (written' = written + 1 /\ Counter' = Counter + 1) ]_vars

C6_Witness ==
    /\ pc = "done"
    /\ printed = << written >>
    /\ written = 4689

Rank(region) == CASE region = "mouth" -> 0 [] region = "left" -> 1 [] region = "right" -> 2

TimeLeq(a, b) == a[1] < b[1] \/ (a[1] = b[1] /\ a[2] <= b[2])

\* C7: every record line carries the time step that produced it (in the
\* full format start_time is ti/1000 to three decimals), and each line
\* appended comes from the same or a later time step than the line before
\* it, within one step from the same or a later region: release times read
\* down the file never decrease.
C7_FileOrder ==
    /\ [](\A k \in DOMAIN tail :
            tail[k].fmt = "full"
              => tail[k].time = << tail[k].step \div 1000, tail[k].step % 1000 >>)
    /\ [][ (written' # written /\ written > 0)
           => LET old == tail[Len(tail)]
                  new == tail'[Len(tail')]
              IN  /\ new.step = ti
                  /\ old.step <= new.step
                  /\ old.step = new.step => Rank(old.region) <= Rank(new.region)
                  /\ new.fmt = "full" => TimeLeq(old.time, new.time) ]_vars

C7_Witness ==
    /\ whichOutput = "Output"
    /\ written = 4501
    /\ tail = << [ step |-> 5000, region |-> "mouth", fmt |-> "full",
                   id |-> 4500, time |-> << 5, 0 >> ] >>

Ended == pc \in {"print", "done", "failed"}

\* C8: the file is opened once, at the start; it is open exactly while the
\* program is between the open and the end of the with block; once the run
\* has ended, by completion or by a write that raised, it is closed, and
\* nothing is written after the close.
C8_ClosedOnEveryExit ==
    /\ [](opens = (IF pc = "start" THEN 0 ELSE 1))
    /\ []((stream = "open") <=> (pc # "start" /\ ~Ended))
    /\ [](Ended => stream = "closed")
    /\ [][ stream = "closed"
           => (stream' = "closed" /\ written' = written /\ header' = header) ]_vars

C8_Witness ==
    /\ pc = "failed"
    /\ stream = "closed"
    /\ written = 6
    /\ gi = 1
    /\ LastLine.region = "left"

Malformed ==
    \/ radius <= 0
    \/ ymax <= ymin
    \/ zmax <= zmin

\* C9: a run with malformed geometry never opens the file and writes
\* neither header nor record.
C9_EagerValidation ==
    Malformed => (stream = "unopened" /\ opens = 0 /\ header = 0 /\ written = 0)

\* C10: with radius > 0, the run reaches its end, so every call of
\* GenNostril it made has returned; a call returns 2 more than the pId it
\* was given, after 2 record lines; a pass of the rejection loop that accepts no sample writes
\* nothing and leaves the counters unchanged, and a pass that accepts
\* writes one line for a candidate inside the disk.
C10_GenNostrilReturns ==
    /\ [](radius > 0)
    /\ <>(pc = "done")
    /\ [][ (InGenNostril /\ pc' # pc)
           => (pId' = pId + 2 /\ written' = written /\ written = pId + 2) ]_vars
    /\ [][ (InGenNostril /\ pc' = pc /\ gi' = gi)
           => (written' = written /\ gpId' = gpId /\ pId' = pId) ]_vars
    /\ [][ (InGenNostril /\ pc' = pc /\ gi' # gi)
           => /\ gi' = gi + 1
              /\ written' = written + 1
              /\ gpId' = gpId + 1
              /\ x' * x' + y' * y' < radius * radius ]_vars

C10_Witness ==
    /\ InGenNostril
    /\ gi = 1
    /\ x * x + y * y >= radius * radius
    /\ gpId = pId + 1
    /\ written = gpId

====
